---- MODULE Spec2Model ----
(***************************************************************************)
(* drone-pagerduty: the plugin's entry point Exec(ctx, client, args).      *)
(*                                                                         *)
(* The model follows the revision of package plugin whose Exec takes the   *)
(* PagerDutyClient as a parameter (src/unnamed/part_002): it is the one    *)
(* the package's tests call (Exec(ctx, mockClient, args)) and the one the  *)
(* latest README (src/unnamed/part_001) documents.  src/plugin/plugin.go   *)
(* is an earlier revision of the same file (Exec(ctx, args), statuses      *)
(* success | failure | unstable | aborted); both define plugin.Exec, so    *)
(* only one of them is in a build.                                         *)
(*                                                                         *)
(* One invocation is one behaviour: Init draws the arguments and the       *)
(* answer the client will give, the action Exec runs the whole function.   *)
(* Go strings are TLA+ strings, compared exactly as Go compares them.      *)
(* The JSON text of CustomDetailsStr is a sequence of lexical tokens.      *)
(***************************************************************************)
EXTENDS Naturals, Sequences, FiniteSets, TLC

VARIABLES
    args,        \* the Args value Exec was called with
    clientErr,   \* the error the client answers a call with (NilErr: none)
    pc,          \* "start" before Exec has run, "done" after it returned
    calls,       \* the calls the client received, in order
    ret,         \* the error Exec returned (NilErr: nil)
    locals       \* Exec's local variables resolveIncident and summary

vars == <<args, clientErr, pc, calls, ret, locals>>

\* A nil Go error.
NilErr == "<nil>"

----------------------------------------------------------------------------
(* Severity levels.                                                         *)

SeverityCritical == "critical"

SeverityError == "error"

SeverityWarning == "warning"

SeverityInfo == "info"

ErrInvalidSeverity ==
    "invalid severity value; allowed values are 'critical', 'error', 'warning', 'info'"

\* Faulty variant: the empty severity is let through.
validateSeverity_AllowEmpty(severity) ==
    IF severity \in {SeverityCritical, SeverityError, SeverityWarning, SeverityInfo, ""}
    THEN NilErr
    ELSE ErrInvalidSeverity

validateSeverity(severity) ==
    IF severity \in {SeverityCritical, SeverityError, SeverityWarning, SeverityInfo}
    THEN NilErr
    ELSE ErrInvalidSeverity

----------------------------------------------------------------------------
(* encoding/json: json.Unmarshal(data, &map[string]interface{}).            *)
(* A token is [k, v]: k is "punct", "str", "num", "null" or "bad" (a        *)
(* character that starts no JSON value, as the i of invalid-json).          *)

Tok(k, v) == [k |-> k, v |-> v]

LBrace == Tok("punct", "{")

RBrace == Tok("punct", "}")

LBracket == Tok("punct", "[")

RBracket == Tok("punct", "]")

Colon == Tok("punct", ":")

Comma == Tok("punct", ",")

Str(s) == Tok("str", s)

Num(n) == Tok("num", n)

Null == Tok("null", "null")

Bad(c) == Tok("bad", c)

IsScalar(t) == t.k \in {"str", "num", "null"}

\* A nil map[string]interface{} and a map holding the entries es.
NilMap == [isNil |-> TRUE, entries |-> {}]

MapOf(es) == [isNil |-> FALSE, entries |-> es]

\* m[key] = val on a Go map: an entry with the same key is replaced.
MapSet(es, key, val) ==
    {e \in es : e.key # key} \cup {[key |-> key, val |-> val]}

\* The character a token starts with, as the syntax errors quote it.
FirstChar(t) ==
    CASE t.k = "str" -> "\""
      [] t.k = "null" -> "n"
      [] OTHER -> t.v

SyntaxErrorAt(toks, i, context) ==
    IF i > Len(toks)
    THEN "unexpected end of JSON input"
    ELSE "invalid character '" \o FirstChar(toks[i]) \o "' " \o context

\* The members of an object from token i on, after "{" or ",": the entries
\* read so far are es.  Member values are scalars.
RECURSIVE ScanMembers(_, _, _)
ScanMembers(toks, i, es) ==
    IF i > Len(toks) \/ toks[i].k # "str"
    THEN [err |-> SyntaxErrorAt(toks, i, "looking for beginning of object key string"),
          map |-> NilMap]
    ELSE IF i + 1 > Len(toks) \/ toks[i + 1] # Colon
    THEN [err |-> SyntaxErrorAt(toks, i + 1, "after object key"), map |-> NilMap]
    ELSE IF i + 2 > Len(toks) \/ ~IsScalar(toks[i + 2])
    THEN [err |-> SyntaxErrorAt(toks, i + 2, "looking for beginning of value"),
          map |-> NilMap]
    ELSE LET es2 == MapSet(es, toks[i].v, toks[i + 2])
         IN  IF i + 3 > Len(toks)
             THEN [err |-> SyntaxErrorAt(toks, i + 3, ""), map |-> NilMap]
             ELSE IF toks[i + 3] = Comma
             THEN ScanMembers(toks, i + 4, es2)
             ELSE IF toks[i + 3] = RBrace
             THEN IF i + 3 = Len(toks)
                  THEN [err |-> NilErr, map |-> MapOf(es2)]
                  ELSE [err |-> SyntaxErrorAt(toks, i + 4, "after top-level value"),
                        map |-> NilMap]
             ELSE [err |-> SyntaxErrorAt(toks, i + 3, "after object key:value pair"),
                   map |-> NilMap]

\* The elements of an array from token i on, after "[" or ",".
RECURSIVE ScanElements(_, _)
ScanElements(toks, i) ==
    IF i > Len(toks) \/ ~IsScalar(toks[i])
    THEN SyntaxErrorAt(toks, i, "looking for beginning of value")
    ELSE IF i + 1 > Len(toks)
    THEN SyntaxErrorAt(toks, i + 1, "")
    ELSE IF toks[i + 1] = Comma
    THEN ScanElements(toks, i + 2)
    ELSE IF toks[i + 1] = RBracket
    THEN IF i + 1 = Len(toks)
         THEN NilErr
         ELSE SyntaxErrorAt(toks, i + 2, "after top-level value")
    ELSE SyntaxErrorAt(toks, i + 1, "after array element")

CannotUnmarshal(what) ==
    "json: cannot unmarshal " \o what \o " into Go value of type map[string]interface {}"

\* json.Unmarshal into a nil map[string]interface{}: the text is checked for
\* syntax as a whole first, then decoded; null leaves the map nil.
Unmarshal(toks) ==
    IF toks = <<>>
    THEN [err |-> "unexpected end of JSON input", map |-> NilMap]
    ELSE IF toks[1] = LBrace
    THEN IF Len(toks) >= 2 /\ toks[2] = RBrace
         THEN IF Len(toks) = 2
              THEN [err |-> NilErr, map |-> MapOf({})]
              ELSE [err |-> SyntaxErrorAt(toks, 3, "after top-level value"),
                    map |-> NilMap]
         ELSE ScanMembers(toks, 2, {})
    ELSE IF toks[1] = LBracket
    THEN LET e == IF Len(toks) >= 2 /\ toks[2] = RBracket
                  THEN IF Len(toks) = 2
                       THEN NilErr
                       ELSE SyntaxErrorAt(toks, 3, "after top-level value")
                  ELSE ScanElements(toks, 2)
         IN  [err |-> IF e = NilErr THEN CannotUnmarshal("array") ELSE e,
              map |-> NilMap]
    ELSE IF IsScalar(toks[1])
    THEN IF Len(toks) > 1
         THEN [err |-> SyntaxErrorAt(toks, 2, "after top-level value"), map |-> NilMap]
         ELSE IF toks[1].k = "null"
         THEN [err |-> NilErr, map |-> NilMap]
         ELSE [err |-> CannotUnmarshal(IF toks[1].k = "str" THEN "string" ELSE "number"),
               map |-> NilMap]
    ELSE [err |-> SyntaxErrorAt(toks, 1, "looking for beginning of value"),
          map |-> NilMap]

----------------------------------------------------------------------------
(* PagerDutyClient: the two methods Exec uses.  The client is the caller's; *)
(* it records the event it is given and answers with the error cerr.        *)

NoPayload == [isNil |-> TRUE, Summary |-> "", Source |-> "", Severity |-> ""]

ManageEventWithContext(event, cerr) ==
    [calls |-> <<[method |-> "ManageEventWithContext", event |-> event]>>,
     err |-> cerr]

CreateChangeEventWithContext(event, cerr) ==
    [calls |-> <<[method |-> "CreateChangeEventWithContext", event |-> event]>>,
     err |-> cerr]

----------------------------------------------------------------------------
(* The three operations on the client.                                      *)

\* Faulty variant: a trigger is always sent as critical.
triggerIncidentAction_AlwaysCritical(a, cerr) ==
    LET event == [RoutingKey |-> a.RoutingKey,
                  Action     |-> "trigger",
                  Payload    |-> [isNil    |-> FALSE,
                                  Summary  |-> a.IncidentSummary,
                                  Source   |-> a.IncidentSource,
                                  Severity |-> SeverityCritical],
                  DedupKey   |-> a.DedupKey]
        r == ManageEventWithContext(event, cerr)
    IN  [calls |-> r.calls,
         err   |-> IF r.err # NilErr
                   THEN "failed to trigger incident: " \o r.err
                   ELSE NilErr]

triggerIncidentAction(a, cerr) ==
    LET event == [RoutingKey |-> a.RoutingKey,
                  Action     |-> "trigger",
                  Payload    |-> [isNil    |-> FALSE,
                                  Summary  |-> a.IncidentSummary,
                                  Source   |-> a.IncidentSource,
                                  Severity |-> a.IncidentSeverity],
                  DedupKey   |-> a.DedupKey]
        r == ManageEventWithContext(event, cerr)
    IN  [calls |-> r.calls,
         err   |-> IF r.err # NilErr
                   THEN "failed to trigger incident: " \o r.err
                   ELSE NilErr]

resolveIncidentAction(a, cerr) ==
    LET event == [RoutingKey |-> a.RoutingKey,
                  Action     |-> "resolve",
                  Payload    |-> NoPayload,
                  DedupKey   |-> a.DedupKey]
        r == ManageEventWithContext(event, cerr)
    IN  [calls |-> r.calls,
         err   |-> IF r.err # NilErr
                   THEN "failed to resolve incident: " \o r.err
                   ELSE NilErr]

\* Faulty variant: the parse error is logged and the event sent all the same.
createChangeEvent_SendAnyway(a, cerr) ==
    LET parsed  == IF a.CustomDetailsStr # <<>>
                   THEN Unmarshal(a.CustomDetailsStr)
                   ELSE [err |-> NilErr, map |-> a.CustomDetails]
        event   == [RoutingKey |-> a.RoutingKey,
                    Payload    |-> [Summary       |-> a.IncidentSummary,
                                    Source        |-> a.IncidentSource,
                                    CustomDetails |-> parsed.map]]
        r       == CreateChangeEventWithContext(event, cerr)
    IN  [calls |-> r.calls,
         err   |-> IF parsed.err # NilErr
                   THEN "failed to parse custom details JSON: " \o parsed.err
                   ELSE IF r.err # NilErr
                   THEN "failed to create change event: " \o r.err
                   ELSE NilErr]

\* Faulty variant: the job status is added to the custom details.
createChangeEvent_JobStatusDetails(a, cerr) ==
    LET parsed  == IF a.CustomDetailsStr # <<>>
                   THEN Unmarshal(a.CustomDetailsStr)
                   ELSE [err |-> NilErr, map |-> a.CustomDetails]
        details == MapOf(MapSet(parsed.map.entries, "job_status", Str(a.JobStatus)))
        event   == [RoutingKey |-> a.RoutingKey,
                    Payload    |-> [Summary       |-> a.IncidentSummary,
                                    Source        |-> a.IncidentSource,
                                    CustomDetails |-> details]]
        r       == CreateChangeEventWithContext(event, cerr)
    IN  IF parsed.err # NilErr
        THEN [calls |-> <<>>,
              err   |-> "failed to parse custom details JSON: " \o parsed.err]
        ELSE [calls |-> r.calls,
              err   |-> IF r.err # NilErr
                        THEN "failed to create change event: " \o r.err
                        ELSE NilErr]

createChangeEvent(a, cerr) ==
    LET parsed  == IF a.CustomDetailsStr # <<>>
                   THEN Unmarshal(a.CustomDetailsStr)
                   ELSE [err |-> NilErr, map |-> a.CustomDetails]
        event   == [RoutingKey |-> a.RoutingKey,
                    Payload    |-> [Summary       |-> a.IncidentSummary,
                                    Source        |-> a.IncidentSource,
                                    CustomDetails |-> parsed.map]]
        r       == CreateChangeEventWithContext(event, cerr)
    IN  IF parsed.err # NilErr
        THEN [calls |-> <<>>,
              err   |-> "failed to parse custom details JSON: " \o parsed.err]
        ELSE [calls |-> r.calls,
              err   |-> IF r.err # NilErr
                        THEN "failed to create change event: " \o r.err
                        ELSE NilErr]

----------------------------------------------------------------------------
(* Exec.                                                                    *)

\* Faulty variant: the severity is checked before the required parameters.
Validate_SeverityFirst(a) ==
    IF a.RoutingKey = ""
    THEN "missing required parameter: routingKey"
    ELSE IF ~a.CreateChangeEvent /\ validateSeverity(a.IncidentSeverity) # NilErr
    THEN validateSeverity(a.IncidentSeverity)
    ELSE IF ~a.CreateChangeEvent /\ a.DedupKey = ""
    THEN "missing required parameter: dedupKey when not creating a change event"
    ELSE IF ~a.CreateChangeEvent /\ a.JobStatus = ""
    THEN "missing required parameter: jobStatus when not creating a change event"
    ELSE IF ~a.CreateChangeEvent /\ a.IncidentSummary = ""
    THEN "missing required parameter: incidentSummary"
    ELSE IF ~a.CreateChangeEvent /\ a.IncidentSource = ""
    THEN "missing required parameter: incidentSource"
    ELSE NilErr

\* Faulty variant: the routing key is required in incident mode only.
Validate_RoutingKeyIncidentOnly(a) ==
    IF ~a.CreateChangeEvent /\ a.RoutingKey = ""
    THEN "missing required parameter: routingKey"
    ELSE IF ~a.CreateChangeEvent /\ a.DedupKey = ""
    THEN "missing required parameter: dedupKey when not creating a change event"
    ELSE IF ~a.CreateChangeEvent /\ a.JobStatus = ""
    THEN "missing required parameter: jobStatus when not creating a change event"
    ELSE IF ~a.CreateChangeEvent /\ a.IncidentSummary = ""
    THEN "missing required parameter: incidentSummary"
    ELSE IF ~a.CreateChangeEvent /\ a.IncidentSource = ""
    THEN "missing required parameter: incidentSource"
    ELSE IF ~a.CreateChangeEvent
    THEN validateSeverity(a.IncidentSeverity)
    ELSE NilErr

\* Faulty variant: the summary and the source are required in both modes.
Validate_SummaryAlways(a) ==
    IF a.RoutingKey = ""
    THEN "missing required parameter: routingKey"
    ELSE IF ~a.CreateChangeEvent /\ a.DedupKey = ""
    THEN "missing required parameter: dedupKey when not creating a change event"
    ELSE IF ~a.CreateChangeEvent /\ a.JobStatus = ""
    THEN "missing required parameter: jobStatus when not creating a change event"
    ELSE IF a.IncidentSummary = ""
    THEN "missing required parameter: incidentSummary"
    ELSE IF a.IncidentSource = ""
    THEN "missing required parameter: incidentSource"
    ELSE IF ~a.CreateChangeEvent
    THEN validateSeverity(a.IncidentSeverity)
    ELSE NilErr

\* The checks Exec starts with, in their order; NilErr when all pass.
Validate(a) ==
    IF a.RoutingKey = ""
    THEN "missing required parameter: routingKey"
    ELSE IF ~a.CreateChangeEvent /\ a.DedupKey = ""
    THEN "missing required parameter: dedupKey when not creating a change event"
    ELSE IF ~a.CreateChangeEvent /\ a.JobStatus = ""
    THEN "missing required parameter: jobStatus when not creating a change event"
    ELSE IF ~a.CreateChangeEvent /\ a.IncidentSummary = ""
    THEN "missing required parameter: incidentSummary"
    ELSE IF ~a.CreateChangeEvent /\ a.IncidentSource = ""
    THEN "missing required parameter: incidentSource"
    ELSE IF ~a.CreateChangeEvent
    THEN validateSeverity(a.IncidentSeverity)
    ELSE NilErr

\* Exec's locals before line 105 declares them.
NoLocals == [declared |-> FALSE, known |-> FALSE, resolveIncident |-> FALSE, summary |-> ""]

Decided(known, resolveIncident, summary) ==
    [declared |-> TRUE, known |-> known, resolveIncident |-> resolveIncident,
     summary |-> summary]

\* Faulty variant: an unknown status falls through to the trigger.
JobStatusSwitch_UnknownFallsThrough(a) ==
    LET summary == a.IncidentSummary
    IN  CASE a.JobStatus = "SUCCESS" ->
               Decided(TRUE, a.ResolveIncident \/ TRUE, "Job succeeded: " \o summary)
          [] a.JobStatus = "FAILED" ->
               Decided(TRUE, a.ResolveIncident, "Job failed: " \o summary)
          [] a.JobStatus = "RUNNING" ->
               Decided(TRUE, a.ResolveIncident \/ TRUE, "Job is unstable: " \o summary)
          [] a.JobStatus = "ABORTED" ->
               Decided(TRUE, a.ResolveIncident, "Job was aborted: " \o summary)
          [] a.JobStatus = "EXPIRED" ->
               Decided(TRUE, a.ResolveIncident, "Job was aborted: " \o summary)
          [] OTHER ->
               Decided(TRUE, FALSE, "Job status unknown: " \o summary)

\* Faulty variant: the status is matched without regard to letter case.
JobStatusSwitch_IgnoreCase(a) ==
    LET summary == a.IncidentSummary
    IN  CASE a.JobStatus \in {"SUCCESS", "success"} ->
               Decided(TRUE, a.ResolveIncident \/ TRUE, "Job succeeded: " \o summary)
          [] a.JobStatus \in {"FAILED", "failed", "Failed"} ->
               Decided(TRUE, a.ResolveIncident, "Job failed: " \o summary)
          [] a.JobStatus \in {"RUNNING", "running"} ->
               Decided(TRUE, a.ResolveIncident \/ TRUE, "Job is unstable: " \o summary)
          [] a.JobStatus \in {"ABORTED", "aborted"} ->
               Decided(TRUE, a.ResolveIncident, "Job was aborted: " \o summary)
          [] a.JobStatus \in {"EXPIRED", "expired"} ->
               Decided(TRUE, a.ResolveIncident, "Job was aborted: " \o summary)
          [] OTHER ->
               Decided(FALSE, FALSE, "Job status unknown: " \o summary)

\* Faulty variant: a succeeded or running job follows the resolve flag too.
JobStatusSwitch_FlagEverywhere(a) ==
    LET summary == a.IncidentSummary
    IN  CASE a.JobStatus = "SUCCESS" ->
               Decided(TRUE, a.ResolveIncident, "Job succeeded: " \o summary)
          [] a.JobStatus = "FAILED" ->
               Decided(TRUE, a.ResolveIncident, "Job failed: " \o summary)
          [] a.JobStatus = "RUNNING" ->
               Decided(TRUE, a.ResolveIncident, "Job is unstable: " \o summary)
          [] a.JobStatus = "ABORTED" ->
               Decided(TRUE, a.ResolveIncident, "Job was aborted: " \o summary)
          [] a.JobStatus = "EXPIRED" ->
               Decided(TRUE, a.ResolveIncident, "Job was aborted: " \o summary)
          [] OTHER ->
               Decided(FALSE, FALSE, "Job status unknown: " \o summary)

\* The switch on args.JobStatus: resolveIncident and summary, and whether a
\* case other than default was taken (default returns nil from Exec).
JobStatusSwitch(a) ==
    LET summary == a.IncidentSummary
    IN  CASE a.JobStatus = "SUCCESS" ->
               Decided(TRUE, a.ResolveIncident \/ TRUE, "Job succeeded: " \o summary)
          [] a.JobStatus = "FAILED" ->
               Decided(TRUE, a.ResolveIncident, "Job failed: " \o summary)
          [] a.JobStatus = "RUNNING" ->
               Decided(TRUE, a.ResolveIncident \/ TRUE, "Job is unstable: " \o summary)
          [] a.JobStatus = "ABORTED" ->
               Decided(TRUE, a.ResolveIncident, "Job was aborted: " \o summary)
          [] a.JobStatus = "EXPIRED" ->
               Decided(TRUE, a.ResolveIncident, "Job was aborted: " \o summary)
          [] OTHER ->
               Decided(FALSE, FALSE, "Job status unknown: " \o summary)

\* The value Exec computes: the error returned, the client calls made and
\* the locals as they stand at the return.
Outcome(e, cs, ls) == [ret |-> e, calls |-> cs, locals |-> ls]

\* Faulty variant: after the change event the job status is handled too.
ExecResult_ContinueAfterChangeEvent(a, cerr) ==
    LET verr == Validate(a)
        ce   == createChangeEvent(a, cerr)
        sw   == JobStatusSwitch(a)
        a2   == [a EXCEPT !.IncidentSummary = sw.summary]
        act  == IF sw.resolveIncident
                THEN resolveIncidentAction(a2, cerr)
                ELSE triggerIncidentAction(a2, cerr)
    IN  IF verr # NilErr
        THEN Outcome(verr, <<>>, NoLocals)
        ELSE IF a.CreateChangeEvent /\ ce.err # NilErr
        THEN Outcome("failed to create change event: " \o ce.err, ce.calls, NoLocals)
        ELSE IF a.CreateChangeEvent /\ a.JobStatus = ""
        THEN Outcome(NilErr, ce.calls, NoLocals)
        ELSE LET before == IF a.CreateChangeEvent THEN ce.calls ELSE <<>>
             IN  IF ~sw.known
                 THEN Outcome(NilErr, before, sw)
                 ELSE IF act.err # NilErr
                 THEN Outcome((IF sw.resolveIncident
                               THEN "failed to resolve incident: "
                               ELSE "failed to trigger incident: ") \o act.err,
                              before \o act.calls, sw)
                 ELSE Outcome(NilErr, before \o act.calls, sw)

\* Faulty variant: the errors are returned without the underlying text.
ExecResult_BareErrors(a, cerr) ==
    LET verr == Validate(a)
        ce   == createChangeEvent(a, cerr)
        sw   == JobStatusSwitch(a)
        a2   == [a EXCEPT !.IncidentSummary = sw.summary]
        act  == IF sw.resolveIncident
                THEN resolveIncidentAction(a2, cerr)
                ELSE triggerIncidentAction(a2, cerr)
    IN  IF verr # NilErr
        THEN Outcome(verr, <<>>, NoLocals)
        ELSE IF a.CreateChangeEvent
        THEN IF ce.err # NilErr
             THEN Outcome("failed to create change event", ce.calls, NoLocals)
             ELSE Outcome(NilErr, ce.calls, NoLocals)
        ELSE IF ~sw.known
        THEN Outcome(NilErr, <<>>, sw)
        ELSE IF act.err # NilErr
        THEN Outcome((IF sw.resolveIncident
                      THEN "failed to resolve incident"
                      ELSE "failed to trigger incident"),
                     act.calls, sw)
        ELSE Outcome(NilErr, act.calls, sw)

\* Faulty variant: in change-event mode the event is sent before the
\* arguments are validated.
ExecResult_LateValidation(a, cerr) ==
    LET verr == Validate(a)
        ce   == createChangeEvent(a, cerr)
        sw   == JobStatusSwitch(a)
        a2   == [a EXCEPT !.IncidentSummary = sw.summary]
        act  == IF sw.resolveIncident
                THEN resolveIncidentAction(a2, cerr)
                ELSE triggerIncidentAction(a2, cerr)
    IN  IF a.CreateChangeEvent
        THEN IF ce.err # NilErr
             THEN Outcome("failed to create change event: " \o ce.err, ce.calls, NoLocals)
             ELSE IF verr # NilErr
             THEN Outcome(verr, ce.calls, NoLocals)
             ELSE Outcome(NilErr, ce.calls, NoLocals)
        ELSE IF verr # NilErr
        THEN Outcome(verr, <<>>, NoLocals)
        ELSE IF ~sw.known
        THEN Outcome(NilErr, <<>>, sw)
        ELSE IF act.err # NilErr
        THEN Outcome((IF sw.resolveIncident
                      THEN "failed to resolve incident: "
                      ELSE "failed to trigger incident: ") \o act.err,
                     act.calls, sw)
        ELSE Outcome(NilErr, act.calls, sw)

\* Faulty variant: a failed incident call is tried a second time.
ExecResult_RetryOnce(a, cerr) ==
    LET verr == Validate(a)
        ce   == createChangeEvent(a, cerr)
        sw   == JobStatusSwitch(a)
        a2   == [a EXCEPT !.IncidentSummary = sw.summary]
        act  == IF sw.resolveIncident
                THEN resolveIncidentAction(a2, cerr)
                ELSE triggerIncidentAction(a2, cerr)
    IN  IF verr # NilErr
        THEN Outcome(verr, <<>>, NoLocals)
        ELSE IF a.CreateChangeEvent
        THEN IF ce.err # NilErr
             THEN Outcome("failed to create change event: " \o ce.err, ce.calls, NoLocals)
             ELSE Outcome(NilErr, ce.calls, NoLocals)
        ELSE IF ~sw.known
        THEN Outcome(NilErr, <<>>, sw)
        ELSE IF act.err # NilErr
        THEN Outcome((IF sw.resolveIncident
                      THEN "failed to resolve incident: "
                      ELSE "failed to trigger incident: ") \o act.err,
                     act.calls \o act.calls, sw)
        ELSE Outcome(NilErr, act.calls, sw)

ExecResult(a, cerr) ==
    LET verr == Validate(a)
        ce   == createChangeEvent(a, cerr)
        sw   == JobStatusSwitch(a)
        a2   == [a EXCEPT !.IncidentSummary = sw.summary]
        act  == IF sw.resolveIncident
                THEN resolveIncidentAction(a2, cerr)
                ELSE triggerIncidentAction(a2, cerr)
    IN  IF verr # NilErr
        THEN Outcome(verr, <<>>, NoLocals)
        ELSE IF a.CreateChangeEvent
        THEN IF ce.err # NilErr
             THEN Outcome("failed to create change event: " \o ce.err, ce.calls, NoLocals)
             ELSE Outcome(NilErr, ce.calls, NoLocals)
        ELSE IF ~sw.known
        THEN Outcome(NilErr, <<>>, sw)
        ELSE IF act.err # NilErr
        THEN Outcome((IF sw.resolveIncident
                      THEN "failed to resolve incident: "
                      ELSE "failed to trigger incident: ") \o act.err,
                     act.calls, sw)
        ELSE Outcome(NilErr, act.calls, sw)

----------------------------------------------------------------------------
(* The invocations explored.                                                *)

RoutingKeys == {"", "testRoutingKey"}

DedupKeys == {"", "testDedupKey"}

Summaries == {"", "Test incident summary"}

Sources == {"", "Test source"}

Severities ==
    {"", SeverityCritical, SeverityError, SeverityWarning, SeverityInfo, "invalid-severity"}

JobStatuses ==
    {"", "SUCCESS", "FAILED", "RUNNING", "ABORTED", "EXPIRED",
     "success", "failed", "running", "aborted", "expired", "Failed",
     "unknown-status"}

\* PLUGIN_CUSTOM_DETAILS texts: unset, {"key1": "value1"}, {},
\* {"key1": "value1", "key2": 2}, invalid-json, "value1", ["value1"], null,
\* {"key1": "value1" (cut short) and {"key1" "value1"}.
CustomDetailsStrs ==
    { <<>>,
      <<LBrace, Str("key1"), Colon, Str("value1"), RBrace>>,
      <<LBrace, RBrace>>,
      <<LBrace, Str("key1"), Colon, Str("value1"), Comma,
        Str("key2"), Colon, Num("2"), RBrace>>,
      <<Bad("i")>>,
      <<Str("value1")>>,
      <<LBracket, Str("value1"), RBracket>>,
      <<Null>>,
      <<LBrace, Str("key1"), Colon, Str("value1")>>,
      <<LBrace, Str("key1"), Str("value1"), RBrace>> }

\* What the client answers: no error, or an error with one of these texts.
ClientErrs == {NilErr, "API call failed", "context deadline exceeded"}

ArgsSet ==
    [RoutingKey        : RoutingKeys,
     IncidentSummary   : Summaries,
     IncidentSource    : Sources,
     IncidentSeverity  : Severities,
     DedupKey          : DedupKeys,
     CreateChangeEvent : BOOLEAN,
     ResolveIncident   : BOOLEAN,
     JobStatus         : JobStatuses,
     CustomDetailsStr  : CustomDetailsStrs,
     CustomDetails     : {NilMap}]

Init ==
    /\ args \in ArgsSet
    /\ clientErr \in ClientErrs
    /\ pc = "start"
    /\ calls = <<>>
    /\ ret = NilErr
    /\ locals = NoLocals

Exec ==
    /\ pc = "start"
    /\ LET out == ExecResult(args, clientErr)
       IN  /\ ret' = out.ret
           /\ calls' = out.calls
           /\ locals' = out.locals
    /\ pc' = "done"
    /\ UNCHANGED <<args, clientErr>>

Next == Exec

Spec == Init /\ [][Next]_vars

----------------------------------------------------------------------------
(* Properties of Exec.  Each is stated on the inputs and on what Exec       *)
(* returned and sent once it has run.                                       *)

Done == pc = "done"

IncidentMode == ~args.CreateChangeEvent

ValidSeverities == {"critical", "error", "warning", "info"}

\* Every rule of the incident-mode validation is met by the input.
ValidIncidentInput ==
    /\ args.RoutingKey # ""
    /\ args.DedupKey # ""
    /\ args.JobStatus # ""
    /\ args.IncidentSummary # ""
    /\ args.IncidentSource # ""
    /\ args.IncidentSeverity \in ValidSeverities

\* The resolve event for the input: action resolve, the input's routing key
\* and dedup key, no payload.
ResolveCall ==
    [method |-> "ManageEventWithContext",
     event  |-> [RoutingKey |-> args.RoutingKey,
                 Action     |-> "resolve",
                 Payload    |-> NoPayload,
                 DedupKey   |-> args.DedupKey]]

\* The trigger event for the input with the summary prefixed by prefix.
TriggerCall(prefix) ==
    [method |-> "ManageEventWithContext",
     event  |-> [RoutingKey |-> args.RoutingKey,
                 Action     |-> "trigger",
                 Payload    |-> [isNil    |-> FALSE,
                                 Summary  |-> prefix \o args.IncidentSummary,
                                 Source   |-> args.IncidentSource,
                                 Severity |-> args.IncidentSeverity],
                 DedupKey   |-> args.DedupKey]]

IncidentCalls ==
    {i \in 1..Len(calls) : calls[i].method = "ManageEventWithContext"}

ChangeCalls ==
    {i \in 1..Len(calls) : calls[i].method = "CreateChangeEventWithContext"}

\* C1: in incident mode, for an input that passes validation and whose job
\* status is success or running, Exec sends exactly the resolve event
\* (routing key and dedup key of the input, no payload) whatever the resolve
\* flag, and no trigger.
C1_SuccessRunningResolve ==
    (Done /\ IncidentMode /\ ValidIncidentInput
          /\ args.JobStatus \in {"success", "running"})
        => calls = <<ResolveCall>>

\* C1, the failing input reached: status success with the resolve flag set,
\* and Exec returned nil without a client call.
C1_SuccessNoCall ==
    /\ Done /\ IncidentMode /\ ValidIncidentInput
    /\ args.JobStatus = "success" /\ args.ResolveIncident
    /\ calls = <<>> /\ ret = NilErr

\* The prefix the claim gives the summary for a failed, aborted or expired job.
C2_Prefix(status) ==
    IF status = "failed" THEN "Job failed: " ELSE "Job was aborted: "

\* C2: in incident mode, for an input that passes validation and whose job
\* status is failed, aborted or expired, Exec sends the resolve event if and
\* only if the resolve flag is true and the trigger event otherwise; the
\* summary is prefixed "Job failed: " for failed and "Job was aborted: " for
\* aborted and expired.
C2_FailedFollowsFlag ==
    (Done /\ IncidentMode /\ ValidIncidentInput
          /\ args.JobStatus \in {"failed", "aborted", "expired"})
        => /\ calls = IF args.ResolveIncident
                      THEN <<ResolveCall>>
                      ELSE <<TriggerCall(C2_Prefix(args.JobStatus))>>
           /\ locals.summary = C2_Prefix(args.JobStatus) \o args.IncidentSummary

\* C2, the failing input reached: status failed with the resolve flag unset,
\* and Exec returned nil without a client call.
C2_FailedNoCall ==
    /\ Done /\ IncidentMode /\ ValidIncidentInput
    /\ args.JobStatus = "failed" /\ ~args.ResolveIncident
    /\ calls = <<>> /\ ret = NilErr

\* With the statuses spelled as the switch spells them, the table holds:
\* SUCCESS and RUNNING always resolve, FAILED, ABORTED and EXPIRED resolve
\* if and only if the resolve flag is set and trigger otherwise.
UpperCaseStatusTable ==
    (Done /\ IncidentMode /\ ValidIncidentInput)
        => /\ args.JobStatus \in {"SUCCESS", "RUNNING"} => calls = <<ResolveCall>>
           /\ args.JobStatus \in {"FAILED", "ABORTED", "EXPIRED"}
                => calls = IF args.ResolveIncident
                           THEN <<ResolveCall>>
                           ELSE <<TriggerCall(IF args.JobStatus = "FAILED"
                                              THEN "Job failed: "
                                              ELSE "Job was aborted: ")>>

\* The job statuses Exec's switch has a case for.
RecognizedStatuses == {"SUCCESS", "FAILED", "RUNNING", "ABORTED", "EXPIRED"}

ErrMissingRoutingKey == "missing required parameter: routingKey"

ErrMissingDedupKey ==
    "missing required parameter: dedupKey when not creating a change event"

ErrMissingJobStatus ==
    "missing required parameter: jobStatus when not creating a change event"

ErrMissingSummary == "missing required parameter: incidentSummary"

ErrMissingSource == "missing required parameter: incidentSource"

\* C4: for every input whose routing key is empty Exec returns the
\* missing-routing-key error, whatever the other fields are.
C4_MissingRoutingKey ==
    (Done /\ args.RoutingKey = "") => ret = ErrMissingRoutingKey

\* C4's case: no routing key in a change-event request whose other fields
\* are all unset or invalid too.
C4_Witness ==
    /\ Done /\ args.RoutingKey = "" /\ args.CreateChangeEvent
    /\ args.JobStatus = "" /\ args.IncidentSeverity = "invalid-severity"
    /\ args.CustomDetailsStr = <<Bad("i")>>
    /\ ret = ErrMissingRoutingKey

\* C5: in change-event mode, once the change event was sent and the client
\* answered without error, Exec returns nil without looking at the job
\* status: no incident event is sent, for every job status and resolve flag.
C5_ChangeEventReturnsAtOnce ==
    (Done /\ args.CreateChangeEvent /\ ChangeCalls # {} /\ clientErr = NilErr)
        => /\ ret = NilErr
           /\ IncidentCalls = {}
           /\ ~locals.declared

\* C5's case: a change event sent for a job with status FAILED.
C5_Witness ==
    /\ Done /\ args.CreateChangeEvent /\ clientErr = NilErr
    /\ args.JobStatus = "FAILED" /\ ~args.ResolveIncident
    /\ args.DedupKey # ""
    /\ Len(calls) = 1 /\ ChangeCalls = {1}
    /\ ret = NilErr

ValidationErrors ==
    {ErrMissingRoutingKey, ErrMissingDedupKey, ErrMissingJobStatus,
     ErrMissingSummary, ErrMissingSource, ErrInvalidSeverity}

ParseErrorPrefix ==
    "failed to create change event: failed to parse custom details JSON: "

\* The custom-details texts that are a JSON object, and the text null, which
\* json.Unmarshal accepts for a map and leaves the map nil.
ObjectTexts ==
    { <<LBrace, Str("key1"), Colon, Str("value1"), RBrace>>,
      <<LBrace, RBrace>>,
      <<LBrace, Str("key1"), Colon, Str("value1"), Comma,
        Str("key2"), Colon, Num("2"), RBrace>> }

NullText == <<Null>>

\* The text is set and is neither an object nor null.
MalformedCustomDetails ==
    /\ args.CustomDetailsStr # <<>>
    /\ args.CustomDetailsStr \notin ObjectTexts
    /\ args.CustomDetailsStr # NullText

\* C6: in change-event mode with a routing key, dedup key, job status,
\* summary, source and severity are not validated: with all five empty Exec
\* still gets to the parse of the custom details and to the send, and
\* returns none of the validation errors.
C6_ChangeEventSkipsIncidentChecks ==
    (Done /\ args.CreateChangeEvent /\ args.RoutingKey # ""
          /\ args.DedupKey = "" /\ args.JobStatus = ""
          /\ args.IncidentSummary = "" /\ args.IncidentSource = ""
          /\ args.IncidentSeverity = "")
        => /\ ret \notin ValidationErrors
           /\ IF MalformedCustomDetails
              THEN calls = <<>> /\ ret # NilErr
              ELSE Len(calls) = 1 /\ ChangeCalls = {1}

\* C6's case: the five fields empty, and the change event sent.
C6_Witness ==
    /\ Done /\ args.CreateChangeEvent /\ args.RoutingKey # ""
    /\ args.DedupKey = "" /\ args.JobStatus = ""
    /\ args.IncidentSummary = "" /\ args.IncidentSource = ""
    /\ args.IncidentSeverity = ""
    /\ Len(calls) = 1 /\ ChangeCalls = {1}
    /\ calls[1].event.Payload.Summary = ""
    /\ ret = NilErr

\* C7: validation fails at the first violated rule, in the order routing
\* key, then in incident mode only dedup key, job status, summary, source,
\* severity: the error returned is the one of the earliest violated rule.
C7_FirstViolatedRuleWins ==
    Done =>
        /\ args.RoutingKey = "" => ret = ErrMissingRoutingKey
        /\ (args.RoutingKey # "" /\ IncidentMode) =>
              /\ args.DedupKey = "" => ret = ErrMissingDedupKey
              /\ (args.DedupKey # "" /\ args.JobStatus = "")
                    => ret = ErrMissingJobStatus
              /\ (args.DedupKey # "" /\ args.JobStatus # ""
                    /\ args.IncidentSummary = "")
                    => ret = ErrMissingSummary
              /\ (args.DedupKey # "" /\ args.JobStatus # ""
                    /\ args.IncidentSummary # "" /\ args.IncidentSource = "")
                    => ret = ErrMissingSource
              /\ (args.DedupKey # "" /\ args.JobStatus # ""
                    /\ args.IncidentSummary # "" /\ args.IncidentSource # ""
                    /\ args.IncidentSeverity \notin ValidSeverities)
                    => ret = ErrInvalidSeverity
        /\ (args.RoutingKey # "" /\ args.CreateChangeEvent)
              => ret \notin ValidationErrors

\* C7's case: an empty dedup key together with an invalid severity and an
\* empty source yields the dedup-key error.
C7_Witness ==
    /\ Done /\ IncidentMode /\ args.RoutingKey # ""
    /\ args.DedupKey = "" /\ args.IncidentSource = ""
    /\ args.IncidentSeverity = "invalid-severity"
    /\ ret = ErrMissingDedupKey

OperationOf(call) ==
    IF call.method = "CreateChangeEventWithContext"
    THEN "create change event"
    ELSE IF call.event.Action = "trigger"
    THEN "trigger incident"
    ELSE "resolve incident"

C11_LowerCaseFailedTriggers ==
    (Done /\ IncidentMode /\ args.RoutingKey # "" /\ args.IncidentSummary # ""
          /\ args.IncidentSource # "" /\ args.IncidentSeverity = "critical"
          /\ args.DedupKey # "" /\ ~args.ResolveIncident
          /\ args.JobStatus = "failed" /\ clientErr = NilErr)
        => /\ calls = <<TriggerCall("Job failed: ")>>
           /\ calls[1].event.Payload.Severity = "critical"
           /\ ret = NilErr

\* C11, the failing input reached: the arguments of TestExec, and Exec
\* returned nil with the summary marked unknown and no client call.
C11_TestExecNoCall ==
    /\ Done /\ IncidentMode /\ args.RoutingKey = "testRoutingKey"
    /\ args.IncidentSummary = "Test incident summary"
    /\ args.IncidentSource = "Test source"
    /\ args.IncidentSeverity = "critical" /\ args.DedupKey = "testDedupKey"
    /\ ~args.ResolveIncident /\ args.JobStatus = "failed"
    /\ clientErr = NilErr
    /\ calls = <<>> /\ ret = NilErr
    /\ locals.summary = "Job status unknown: Test incident summary"


KeyValue(key, val) == [key |-> key, val |-> val]

\* The content of each custom-details text that is a JSON object, written
\* out entry by entry.
ContentOf(text) ==
    CASE text = <<LBrace, Str("key1"), Colon, Str("value1"), RBrace>> ->
           {KeyValue("key1", Str("value1"))}
      [] text = <<LBrace, RBrace>> -> {}
      [] text = <<LBrace, Str("key1"), Colon, Str("value1"), Comma,
                  Str("key2"), Colon, Num("2"), RBrace>> ->
           {KeyValue("key1", Str("value1")), KeyValue("key2", Num("2"))}

\* C12: in change-event mode with a custom-details text that is a JSON
\* object, the one call is the change event with the input's routing key,
\* its summary and source as given (no job-status prefix), and a mapping
\* that is exactly the content of the text; the job status is not put into
\* the mapping.
C12_ChangeEventCarriesParsedDetails ==
    (Done /\ args.CreateChangeEvent /\ args.RoutingKey # ""
          /\ args.CustomDetailsStr \in ObjectTexts)
        => /\ calls =
                <<[method |-> "CreateChangeEventWithContext",
                   event  |-> [RoutingKey |-> args.RoutingKey,
                               Payload    |->
                                 [Summary       |-> args.IncidentSummary,
                                  Source        |-> args.IncidentSource,
                                  CustomDetails |->
                                    [isNil   |-> FALSE,
                                     entries |-> ContentOf(args.CustomDetailsStr)]]]]>>
           /\ \A e \in calls[1].event.Payload.CustomDetails.entries :
                 e.key # "job_status"

\* C12's case: {"key1": "value1"} on a job with status FAILED: one entry,
\* key1 -> value1, and the summary as given.
C12_Witness ==
    /\ Done /\ args.CreateChangeEvent /\ args.RoutingKey # ""
    /\ args.CustomDetailsStr = <<LBrace, Str("key1"), Colon, Str("value1"), RBrace>>
    /\ args.JobStatus = "FAILED" /\ args.IncidentSummary = "Test incident summary"
    /\ Len(calls) = 1
    /\ Cardinality(calls[1].event.Payload.CustomDetails.entries) = 1
    /\ calls[1].event.Payload.CustomDetails.entries = {KeyValue("key1", Str("value1"))}
    /\ calls[1].event.Payload.Summary = "Test incident summary"


\* C13: an invocation makes at most one client call, with no second try
\* after a failure: exactly one when it ends in a trigger, a resolve or a
\* change event, none on a validation error, on a custom-details parse error
\* and on an unrecognized job status.  No invocation sends a change event
\* and an incident event both.
C13_AtMostOneCall ==
    Done =>
        /\ Len(calls) <= 1
        /\ ~(ChangeCalls # {} /\ IncidentCalls # {})
        /\ args.RoutingKey = "" => calls = <<>>
        /\ (IncidentMode /\ ~ValidIncidentInput) => calls = <<>>
        /\ (IncidentMode /\ ValidIncidentInput) =>
              IF args.JobStatus \in RecognizedStatuses
              THEN Len(calls) = 1 /\ IncidentCalls = {1}
              ELSE calls = <<>>
        /\ (args.CreateChangeEvent /\ args.RoutingKey # "") =>
              IF MalformedCustomDetails
              THEN calls = <<>>
              ELSE Len(calls) = 1 /\ ChangeCalls = {1}

\* C13's case: a trigger the client answers with an error, and the one call
\* stays the only one.
C13_Witness ==
    /\ Done /\ IncidentMode /\ clientErr = "API call failed"
    /\ args.JobStatus = "FAILED" /\ ~args.ResolveIncident
    /\ Len(calls) = 1 /\ calls[1].event.Action = "trigger"
    /\ ret # NilErr


\* The action of the one incident event sent, "none" when none was.
ActionSent ==
    IF Len(calls) = 1 /\ IncidentCalls = {1} THEN calls[1].event.Action ELSE "none"

ConfigurationErrors ==
    {ErrMissingRoutingKey, ErrMissingDedupKey, ErrMissingJobStatus,
     ErrMissingSummary, ErrMissingSource}

\* C15: every configuration error (missing routing key, dedup key, job
\* status, summary or source) is found before any network call: when Exec
\* returns one of them the client was called zero times.
C15_ConfigurationErrorNoCall ==
    (Done /\ ret \in ConfigurationErrors) => Len(calls) = 0

\* C15's case: a change-event request with a well-formed custom-details
\* text and no routing key.
C15_Witness ==
    /\ Done /\ args.CreateChangeEvent /\ args.RoutingKey = ""
    /\ args.CustomDetailsStr \in ObjectTexts
    /\ ret = ErrMissingRoutingKey
    /\ Len(calls) = 0

\* The summary prefix of the statuses that can end in a trigger.
TriggerPrefix(status) ==
    CASE status = "FAILED" -> "Job failed: "
      [] status \in {"ABORTED", "EXPIRED"} -> "Job was aborted: "
      [] OTHER -> "Job status unknown: "

\* C16: whenever Exec sends a trigger event, the event carries the input's
\* routing key and dedup key unchanged and a payload whose source and
\* severity are the input's, for every job status, and whose summary is the
\* status prefix followed by the input's summary.
C16_TriggerCarriesInput ==
    (Done /\ \E i \in IncidentCalls : calls[i].event.Action = "trigger")
        => /\ calls = <<TriggerCall(TriggerPrefix(args.JobStatus))>>
           /\ args.JobStatus \in {"FAILED", "ABORTED", "EXPIRED"}
           /\ calls[1].event.Payload.Severity \in ValidSeverities

\* C16's case: an aborted job with severity warning.
C16_Witness ==
    /\ Done /\ IncidentMode
    /\ args.JobStatus = "ABORTED" /\ args.IncidentSeverity = "warning"
    /\ Len(calls) = 1 /\ IncidentCalls = {1} /\ calls[1].event.Action = "trigger"
    /\ calls[1].event.Payload.Severity = "warning"
    /\ calls[1].event.Payload.Summary = "Job was aborted: Test incident summary"
    /\ calls[1].event.DedupKey = "testDedupKey"

\* The statuses of the model that differ from a recognized one in letter
\* case only.
CaseVariants == {"success", "failed", "running", "aborted", "expired", "Failed"}

====
